---- MODULE Spec2Model ----
(***************************************************************************)
(* A model of advancedrequest (src/index.js): the AdvancedRequest class    *)
(* (retries, interval throttling, protective timeout, cancellation) and    *)
(* the module-level lastRunHash registry with its three operations.        *)
(*                                                                         *)
(* JavaScript runs every handler (a user call, a timer callback, the       *)
(* transport callback) to completion on one thread, so each handler is one *)
(* atomic action.  Every handler is written as an operator from the        *)
(* program state (the record St) to the program state, composed exactly as *)
(* the methods call each other; an action applies one handler and assigns  *)
(* the result.  Time is the value of new Date().getTime() in milliseconds; *)
(* one handler reads one clock value.  A timer set with setTimeout(f, d)   *)
(* at time t may fire at any time >= t + d.                                *)
(***************************************************************************)
EXTENDS Integers, FiniteSets, Sequences, TLC

VARIABLES
    now,          \* new Date().getTime()
    ticks,        \* number of clock advances so far (bounds the model)
    lastRunHash,  \* the module-level registry (src/index.js:32)
    reqs,         \* the AdvancedRequest objects, by instance
    timers,       \* pending setTimeout timers
    inflight,     \* transport calls that have not called back nor been aborted
    log,          \* history: what each instance has done so far
    lastOp        \* history: the handler that ran in the last step

vars == <<now, ticks, lastRunHash, reqs, timers, inflight, log, lastOp>>

---------------------------------------------------------------------------
(* Bounds of the model *)

MaxTicks == 2
MaxInterval == 2

\* the request objects of the model
Inst == {1, 2}

---------------------------------------------------------------------------
(* Program constants *)

\* lastReqTime absent (undefined) or 0: both are falsy in `!lastReqTime`
NoTime == 0
\* args.maxRetries || 10
DefaultMaxRetries == 10
\* extraOpts.timeout: 60 * 1000
RequestTimeoutMs == 60000
\* extraOpts.timeout + 2000
GuardMarginMs == 2000
\* this.fail(.1, ...): .1 * 1000 milliseconds
GuardBackoffMs == 100
\* this.fail(10, ...): 10 * 1000 milliseconds
ErrorBackoffMs == 10000

UnnamedRequest == "unnamed request"

---------------------------------------------------------------------------
(* Inputs *)

\* identities a caller registers in a registry
Names == {"X", "Y"}
\* args.name: "X", or "" for a request constructed without a name
ArgNames == {"X", ""}
\* requiredInterval values a caller registers, in milliseconds
Intervals == 1..MaxInterval
\* delays a subclass's postProcess passes to fail(), already in milliseconds
ClassifierDelaysMs == {0}

\* A registry entry { lastReqTime, requiredInterval } a caller registers at
\* time t: without lastReqTime, or with lastReqTime: new Date().getTime()
Entries(t) == [lastReqTime : {NoTime, t}, requiredInterval : Intervals]

\* The maps a caller passes to the registry operations at time t.  "X" is
\* the identity the requests use; "Y" is a second identity, always
\* registered the same way.
AllMaps(t) == UNION {[D -> Entries(t)] : D \in SUBSET Names}

HashMaps(t) ==
    {M \in AllMaps(t) :
        "Y" \in DOMAIN M =>
            M["Y"] = [lastReqTime |-> NoTime, requiredInterval |-> 1]}

EmptyHash == [n \in {} |-> [lastReqTime |-> NoTime, requiredInterval |-> 1]]

\* args.maxRetries: omitted, or a number
Omitted == [given |-> FALSE, value |-> 0]
Given(v) == [given |-> TRUE, value |-> v]

\* The arguments of new AdvancedRequest(args) the model constructs, and for a
\* subclass whether it sets this.lastRunHash (a private registry).
Args ==
    [name : ArgNames, maxRetries : {Given(1), Given(2)}, ownHash : BOOLEAN]

\* The arguments of the requests that retry up to the default ceiling
RetryArgs ==
    [name : ArgNames, maxRetries : {Omitted, Given(0), Given(3)},
     ownHash : {FALSE}]

\* The arguments of two requests of one identity that run concurrently
PairArgs ==
    [name : {"X"}, maxRetries : {Given(2)}, ownHash : {FALSE}]

\* The maps registered while two requests run concurrently
PairMaps(t) ==
    {M \in HashMaps(t) :
        DOMAIN M = {"X"} /\ M["X"].requiredInterval = MaxInterval}

---------------------------------------------------------------------------
(* The program state as one value, and its assignment *)

St ==
    [now |-> now, lastRunHash |-> lastRunHash, reqs |-> reqs,
     timers |-> timers, inflight |-> inflight, log |-> log]

Assign(s) ==
    /\ lastRunHash' = s.lastRunHash
    /\ reqs' = s.reqs
    /\ timers' = s.timers
    /\ inflight' = s.inflight
    /\ log' = s.log

\* The handler of the last step: its name and its request object (0: none);
\* for a registry operation its argument, the registry it found (for a
\* removeFromLastRunHash(M) that directly follows addToLastRunHash(M): the
\* registry that addToLastRunHash found) and whether it is such a round trip
Op(name, i) ==
    [op |-> name, inst |-> i, arg |-> EmptyHash, pre |-> EmptyHash,
     roundTrip |-> FALSE]

RegistryOp(name, M, R, rt) ==
    [op |-> name, inst |-> 0, arg |-> M, pre |-> R, roundTrip |-> rt]

\* An object before new AdvancedRequest() has run
NoRequest ==
    [constructed |-> FALSE, opts |-> [name |-> "", maxRetries |-> Omitted],
     name |-> "", maxRetries |-> 0, numTriesSoFar |-> 0,
     data |-> "", responseStatusCode |-> 0,
     isRequestComplete |-> FALSE, markedToCancel |-> FALSE,
     hasOwnHash |-> FALSE, ownHash |-> EmptyHash,
     reqObj |-> 0, requestTimeoutInt |-> 0, callback |-> ""]

NoLog ==
    [started |-> FALSE, dispatched |-> 0, callbacks |-> 0, exhausted |-> 0,
     failures |-> 0, finishedAt |-> NoTime, unregistered |-> FALSE,
     async |-> FALSE, resolved |-> 0, resolvedWith |-> ""]

---------------------------------------------------------------------------
(* AdvancedRequest *)

\* constructor: name, maxRetries, callback, numTriesSoFar, data, flags
Constructor(a) ==
    [NoRequest EXCEPT
        !.constructed = TRUE,
        !.callback = "args.callback",
        !.opts = [name |-> a.name, maxRetries |-> a.maxRetries],
        !.name = IF a.name = "" THEN UnnamedRequest ELSE a.name,
        !.maxRetries = IF ~a.maxRetries.given \/ a.maxRetries.value = 0
                       THEN DefaultMaxRetries ELSE a.maxRetries.value,
        !.hasOwnHash = a.ownHash,
        !.ownHash = IF a.ownHash
                    THEN [n \in {"X"} |->
                            [lastReqTime |-> NoTime, requiredInterval |-> 1]]
                    ELSE EmptyHash]

\* getLastRunHash: this.lastRunHash || lastRunHash
GetLastRunHash(s, i) ==
    IF s.reqs[i].hasOwnHash THEN s.reqs[i].ownHash ELSE s.lastRunHash

\* Mutant of SetLastReqTime: the module-level registry is written whatever
\* registry the request uses
SetLastReqTimeShared(s, i, t) ==
    LET n == s.reqs[i].name IN
    IF n \in DOMAIN s.lastRunHash
    THEN [s EXCEPT !.lastRunHash[n].lastReqTime = t]
    ELSE s

\* this.getLastRunHash()[this.name].lastReqTime = t
SetLastReqTime(s, i, t) ==
    LET n == s.reqs[i].name IN
    IF s.reqs[i].hasOwnHash
    THEN [s EXCEPT !.reqs[i].ownHash[n].lastReqTime = t]
    ELSE [s EXCEPT !.lastRunHash[n].lastReqTime = t]

\* onRequestRetriesExhausted: logs and throws; nothing further is scheduled
OnRequestRetriesExhausted(s, i) ==
    [s EXCEPT !.log[i].exhausted = @ + 1]

\* history: an attempt of request i has ended in a failure (the guard fired,
\* the transport reported an error, or postProcess chose to fail)
AttemptFailed(s, i) ==
    [s EXCEPT !.log[i].failures = @ + 1]

\* setTimeout(f, delay): a pending timer
AddTimer(s, i, kind, att, delay) ==
    [s EXCEPT !.timers = @ \cup
        {[inst |-> i, kind |-> kind, att |-> att, due |-> s.now + delay]}]

\* Mutant of Fail: the ceiling compared with > instead of >=
FailOffByOne(s, i, sleepMs) ==
    LET s1 == [s EXCEPT !.reqs[i].numTriesSoFar = @ + 1]
        r == s1.reqs[i]
    IN  IF r.numTriesSoFar > r.maxRetries /\ r.maxRetries # 0
        THEN OnRequestRetriesExhausted(s1, i)
        ELSE AddTimer(s1, i, "retry", 0, sleepMs)

\* fail(sleepSeconds, msg), sleepMs = sleepSeconds * 1000
Fail(s, i, sleepMs) ==
    LET s1 == [s EXCEPT !.reqs[i].numTriesSoFar = @ + 1]
        r == s1.reqs[i]
    IN  IF r.numTriesSoFar >= r.maxRetries /\ r.maxRetries # 0
        THEN OnRequestRetriesExhausted(s1, i)
        ELSE AddTimer(s1, i, "retry", 0, sleepMs)

\* this.callback(result): the function given to the constructor, or the
\* resolve function of the promise of runAsync
CallCallback(s, i, result) ==
    IF s.reqs[i].callback = "resolve"
    THEN [s EXCEPT !.log[i].callbacks = @ + 1,
                   !.log[i].resolved = @ + 1,
                   !.log[i].resolvedWith = result]
    ELSE [s EXCEPT !.log[i].callbacks = @ + 1]

\* onFinish(result), result = this.data: stamp the registry entry, mark
\* complete, call back
OnFinish(s, i) ==
    LET n == s.reqs[i].name
        s1 == IF n \in DOMAIN GetLastRunHash(s, i)
              THEN SetLastReqTime(s, i, s.now) ELSE s
        s2 == [s1 EXCEPT !.reqs[i].isRequestComplete = TRUE,
                         !.log[i].finishedAt = s.now]
    IN  CallCallback(s2, i, s.reqs[i].data)

\* Mutant of IsSleepIntervalNecessary: an entry whose lastReqTime has just
\* been initialised is eligible at once
IsSleepIntervalNecessaryEager(s, i) ==
    LET n == s.reqs[i].name IN
    IF n \in DOMAIN GetLastRunHash(s, i)
    THEN IF GetLastRunHash(s, i)[n].lastReqTime = NoTime
         THEN [nec |-> FALSE, s |-> SetLastReqTime(s, i, s.now)]
         ELSE LET e == GetLastRunHash(s, i)[n] IN
              [nec |-> s.now - e.lastReqTime < e.requiredInterval, s |-> s]
    ELSE [nec |-> FALSE, s |-> [s EXCEPT !.log[i].unregistered = TRUE]]

\* Mutant of IsSleepIntervalNecessary: the interval is one millisecond short
IsSleepIntervalNecessaryShort(s, i) ==
    LET n == s.reqs[i].name IN
    IF n \in DOMAIN GetLastRunHash(s, i)
    THEN LET s1 == IF GetLastRunHash(s, i)[n].lastReqTime = NoTime
                   THEN SetLastReqTime(s, i, s.now) ELSE s
             e == GetLastRunHash(s1, i)[n]
         IN  [nec |-> s.now - e.lastReqTime < e.requiredInterval - 1,
              s |-> s1]
    ELSE [nec |-> FALSE, s |-> [s EXCEPT !.log[i].unregistered = TRUE]]

\* isSleepIntervalNecessary: the answer and the state it leaves (the lazy
\* initialisation of lastReqTime is a write)
IsSleepIntervalNecessary(s, i) ==
    LET n == s.reqs[i].name IN
    IF n \in DOMAIN GetLastRunHash(s, i)
    THEN LET s1 == IF GetLastRunHash(s, i)[n].lastReqTime = NoTime
                   THEN SetLastReqTime(s, i, s.now) ELSE s
             e == GetLastRunHash(s1, i)[n]
             millisecondsSinceLastRequest == s.now - e.lastReqTime
         IN  [nec |-> millisecondsSinceLastRequest < e.requiredInterval,
              s |-> s1]
    ELSE [nec |-> FALSE, s |-> [s EXCEPT !.log[i].unregistered = TRUE]]

\* Mutant of Dispatch: a registered identity is stamped at the dispatch
DispatchStampsRegistry(s, i) ==
    LET att == s.log[i].dispatched + 1
        s0 == IF s.reqs[i].name \in DOMAIN GetLastRunHash(s, i)
              THEN SetLastReqTime(s, i, s.now) ELSE s
        s1 == AddTimer(s0, i, "guard", att, RequestTimeoutMs + GuardMarginMs)
    IN  [s1 EXCEPT !.reqs[i].requestTimeoutInt = att,
                   !.reqs[i].reqObj = att,
                   !.inflight = @ \cup {[inst |-> i, att |-> att]},
                   !.log[i].dispatched = att]

\* Mutant of Dispatch: the guard is set to the transport timeout itself
DispatchNoMargin(s, i) ==
    LET att == s.log[i].dispatched + 1
        s1 == AddTimer(s, i, "guard", att, RequestTimeoutMs)
    IN  [s1 EXCEPT !.reqs[i].requestTimeoutInt = att,
                   !.reqs[i].reqObj = att,
                   !.inflight = @ \cup {[inst |-> i, att |-> att]},
                   !.log[i].dispatched = att]

\* run, after the throttle check: build the options, arm the timeout guard,
\* call the transport
Dispatch(s, i) ==
    LET att == s.log[i].dispatched + 1
        s1 == AddTimer(s, i, "guard", att, RequestTimeoutMs + GuardMarginMs)
    IN  [s1 EXCEPT !.reqs[i].requestTimeoutInt = att,
                   !.reqs[i].reqObj = att,
                   !.inflight = @ \cup {[inst |-> i, att |-> att]},
                   !.log[i].dispatched = att]

RECURSIVE Run(_, _)
RECURSIVE SleepIntervalIfNecessary(_, _)

\* Mutant of Run: markedToCancel is not checked
RunNoCancelCheck(s, i) ==
    LET c == IsSleepIntervalNecessary(s, i) IN
    IF c.nec THEN SleepIntervalIfNecessary(c.s, i)
    ELSE Dispatch(c.s, i)

\* sleepIntervalIfNecessary(callback), callback = () => this.run(...)
SleepIntervalIfNecessary(s, i) ==
    LET c == IsSleepIntervalNecessary(s, i) IN
    IF c.nec
    THEN LET e == GetLastRunHash(c.s, i)[s.reqs[i].name]
             millisecondsSinceLastRequest == s.now - e.lastReqTime
             timeToSleep == e.requiredInterval - millisecondsSinceLastRequest
         IN  AddTimer(c.s, i, "sleep", 0, timeToSleep)
    ELSE Run(c.s, i)

\* run
Run(s, i) ==
    IF s.reqs[i].markedToCancel THEN s
    ELSE LET c == IsSleepIntervalNecessary(s, i) IN
         IF c.nec THEN SleepIntervalIfNecessary(c.s, i)
         ELSE Dispatch(c.s, i)

\* Mutant of RunAsync: this.callback is left as the constructor set it
RunAsyncKeepsCallback(s, i) ==
    Run(s, i)

\* runAsync: this.callback = resolve; this.run()
RunAsync(s, i) ==
    Run([s EXCEPT !.reqs[i].callback = "resolve"], i)

\* Mutant of ClearRequestTimeout: the timer is left pending
ClearRequestTimeoutLeavesTimer(s, i) ==
    s

\* clearTimeout(this._requestTimeoutInt)
ClearRequestTimeout(s, i) ==
    [s EXCEPT !.timers = {t \in @ :
        ~(t.inst = i /\ t.kind = "guard" /\ t.att = s.reqs[i].requestTimeoutInt)}]

\* this.reqObj.abort(): the aborted call never calls back
AbortReqObj(s, i) ==
    [s EXCEPT !.inflight = {c \in @ :
        ~(c.inst = i /\ c.att = s.reqs[i].reqObj)}]

\* Mutant of CancelRequestBody: the in-flight call is not aborted
CancelRequestNoAbort(s, i) ==
    IF s.reqs[i].markedToCancel THEN s
    ELSE IF s.reqs[i].isRequestComplete THEN s
    ELSE [ClearRequestTimeout(s, i) EXCEPT !.reqs[i].markedToCancel = TRUE]

\* Mutant of CancelRequestBody: isRequestComplete is not checked
CancelRequestIgnoresComplete(s, i) ==
    IF s.reqs[i].markedToCancel THEN s
    ELSE [ClearRequestTimeout(AbortReqObj(s, i), i)
             EXCEPT !.reqs[i].markedToCancel = TRUE]

\* Mutant of CancelRequestBody: the timeout guard is not cleared
CancelRequestKeepsGuard(s, i) ==
    IF s.reqs[i].markedToCancel THEN s
    ELSE IF s.reqs[i].isRequestComplete THEN s
    ELSE [AbortReqObj(s, i) EXCEPT !.reqs[i].markedToCancel = TRUE]

\* cancelRequest
CancelRequestBody(s, i) ==
    IF s.reqs[i].markedToCancel THEN s
    ELSE IF s.reqs[i].isRequestComplete THEN s
    ELSE LET s1 == AbortReqObj(s, i)
             s2 == ClearRequestTimeout(s1, i)
         IN  [s2 EXCEPT !.reqs[i].markedToCancel = TRUE]

\* Mutant of GuardBody: the transport call is not aborted
GuardBodyNoAbort(s, i) ==
    Fail(AttemptFailed(s, i), i, GuardBackoffMs)

\* Mutant of GuardBody: the call is aborted and fail() is not called
GuardBodyOnlyAborts(s, i) ==
    AbortReqObj(s, i)

\* the timeout guard's callback: abort, fail(.1)
GuardBody(s, i) ==
    Fail(AttemptFailed(AbortReqObj(s, i), i), i, GuardBackoffMs)

\* postProcess: the base class finishes; a subclass may fail(delay) instead
PostProcess(s, i, outcome) ==
    IF outcome.finish THEN OnFinish(s, i)
    ELSE Fail(AttemptFailed(s, i), i, outcome.delayMs)

Outcomes ==
    {[finish |-> TRUE, delayMs |-> 0]} \cup
    {[finish |-> FALSE, delayMs |-> d] : d \in ClassifierDelaysMs}

\* Mutant of RequestCallback: the timeout guard is not cleared
RequestCallbackKeepsGuard(s, i, error, outcome) ==
    IF error THEN Fail(AttemptFailed(s, i), i, ErrorBackoffMs)
    ELSE PostProcess([s EXCEPT !.reqs[i].data = "body",
                               !.reqs[i].responseStatusCode = 200],
                     i, outcome)

\* the callback given to request(): (error, response, body)
RequestCallback(s, i, error, outcome) ==
    LET s1 == ClearRequestTimeout(s, i) IN
    IF error THEN Fail(AttemptFailed(s1, i), i, ErrorBackoffMs)
    ELSE PostProcess([s1 EXCEPT !.reqs[i].data = "body",
                                !.reqs[i].responseStatusCode = 200],
                     i, outcome)

---------------------------------------------------------------------------
(* The registry operations of module.exports *)

\* setLastRunHash(newLastRunHash)
SetLastRunHashTo(R, M) == M

\* Mutant of AddToLastRunHashOf: Object.assign({}, items)
AddToLastRunHashDropsExisting(R, M) == M

\* addToLastRunHash(items): Object.assign({}, lastRunHash, items)
AddToLastRunHashOf(R, M) ==
    [n \in DOMAIN R \cup DOMAIN M |-> IF n \in DOMAIN M THEN M[n] ELSE R[n]]

\* removeFromLastRunHash(items): delete every key of items that is present
RemoveFromLastRunHashOf(R, M) ==
    [n \in DOMAIN R \ DOMAIN M |-> R[n]]

---------------------------------------------------------------------------
(* Actions *)

Init ==
    /\ now = 1
    /\ ticks = 0
    /\ lastRunHash = EmptyHash
    /\ reqs = [i \in Inst |-> NoRequest]
    /\ timers = {}
    /\ inflight = {}
    /\ log = [i \in Inst |-> NoLog]
    /\ lastOp = Op("init", 0)

\* new AdvancedRequest(args)
New(i, a) ==
    /\ ~reqs[i].constructed
    /\ reqs' = [reqs EXCEPT ![i] = Constructor(a)]
    /\ lastOp' = Op("new", i)
    /\ UNCHANGED <<now, ticks, lastRunHash, timers, inflight, log>>

\* the caller's one call of run()
UserRun(i) ==
    /\ reqs[i].constructed
    /\ ~log[i].started
    /\ Assign(Run([St EXCEPT !.log[i].started = TRUE], i))
    /\ lastOp' = Op("run", i)
    /\ UNCHANGED <<now, ticks>>

\* the caller's one call of runAsync()
UserRunAsync(i) ==
    /\ reqs[i].constructed
    /\ ~log[i].started
    /\ Assign(RunAsync([St EXCEPT !.log[i].started = TRUE,
                                  !.log[i].async = TRUE], i))
    /\ lastOp' = Op("runAsync", i)
    /\ UNCHANGED <<now, ticks>>

\* the caller calls cancelRequest()
CancelRequest(i) ==
    /\ reqs[i].constructed
    /\ Assign(CancelRequestBody(St, i))
    /\ lastOp' = Op("cancelRequest", i)
    /\ UNCHANGED <<now, ticks>>

\* a retry timer set by fail() fires: run()
RetryTimer(t) ==
    /\ t \in timers /\ t.kind = "retry" /\ t.due <= now
    /\ Assign(Run([St EXCEPT !.timers = @ \ {t}], t.inst))
    /\ lastOp' = Op("retryTimer", t.inst)
    /\ UNCHANGED <<now, ticks>>

\* a throttle-wait timer fires: sleepIntervalIfNecessary(callback)
SleepTimer(t) ==
    /\ t \in timers /\ t.kind = "sleep" /\ t.due <= now
    /\ Assign(SleepIntervalIfNecessary([St EXCEPT !.timers = @ \ {t}], t.inst))
    /\ lastOp' = Op("sleepTimer", t.inst)
    /\ UNCHANGED <<now, ticks>>

\* the timeout guard fires
GuardTimer(t) ==
    /\ t \in timers /\ t.kind = "guard" /\ t.due <= now
    /\ Assign(GuardBody([St EXCEPT !.timers = @ \ {t}], t.inst))
    /\ lastOp' = Op("guardTimer", t.inst)
    /\ UNCHANGED <<now, ticks>>

\* the transport calls back with an error
TransportError(c) ==
    /\ c \in inflight
    /\ Assign(RequestCallback([St EXCEPT !.inflight = @ \ {c}], c.inst,
                              TRUE, [finish |-> FALSE, delayMs |-> 0]))
    /\ lastOp' = Op("transportError", c.inst)
    /\ UNCHANGED <<now, ticks>>

\* the transport calls back with a response; postProcess decides
TransportResponse(c, outcome) ==
    /\ c \in inflight
    /\ Assign(RequestCallback([St EXCEPT !.inflight = @ \ {c}], c.inst,
                              FALSE, outcome))
    /\ lastOp' = Op(IF outcome.finish THEN "onFinish" ELSE "postProcessFail",
                    c.inst)
    /\ UNCHANGED <<now, ticks>>

\* track: whether lastOp keeps the argument and the registry found
SetLastRunHash(M, track) ==
    /\ lastRunHash' = SetLastRunHashTo(lastRunHash, M)
    /\ lastOp' = IF track
                  THEN RegistryOp("setLastRunHash", M, lastRunHash, FALSE)
                  ELSE Op("setLastRunHash", 0)
    /\ UNCHANGED <<now, ticks, reqs, timers, inflight, log>>

AddToLastRunHash(M, track) ==
    /\ lastRunHash' = AddToLastRunHashOf(lastRunHash, M)
    /\ lastOp' = IF track
                  THEN RegistryOp("addToLastRunHash", M, lastRunHash, FALSE)
                  ELSE Op("addToLastRunHash", 0)
    /\ UNCHANGED <<now, ticks, reqs, timers, inflight, log>>

RemoveFromLastRunHash(M, track) ==
    /\ lastRunHash' = RemoveFromLastRunHashOf(lastRunHash, M)
    /\ lastOp' =
          IF ~track THEN Op("removeFromLastRunHash", 0)
          ELSE IF lastOp.op = "addToLastRunHash" /\ lastOp.arg = M
          THEN RegistryOp("removeFromLastRunHash", M, lastOp.pre, TRUE)
          ELSE RegistryOp("removeFromLastRunHash", M, lastRunHash, FALSE)
    /\ UNCHANGED <<now, ticks, reqs, timers, inflight, log>>

\* the clock advances: by a millisecond, or to the due time of a pending timer
Tick(t) ==
    /\ ticks < MaxTicks
    /\ t > now
    /\ now' = t
    /\ ticks' = ticks + 1
    /\ lastOp' = Op("tick", 0)
    /\ UNCHANGED <<lastRunHash, reqs, timers, inflight, log>>

\* One request object, every argument, every registry operation
Next ==
    \/ \E a \in Args : New(1, a)
    \/ UserRun(1)
    \/ CancelRequest(1)
    \/ \E t \in timers : RetryTimer(t)
    \/ \E t \in timers : SleepTimer(t)
    \/ \E t \in timers : GuardTimer(t)
    \/ \E c \in inflight : TransportError(c)
    \/ \E c \in inflight, o \in Outcomes : TransportResponse(c, o)
    \/ \E M \in HashMaps(now) : SetLastRunHash(M, FALSE)
    \/ \E M \in HashMaps(now) : AddToLastRunHash(M, FALSE)
    \/ \E M \in HashMaps(now) : RemoveFromLastRunHash(M, FALSE)
    \/ \E t \in {now + 1} \cup {x.due : x \in timers} : Tick(t)

Spec == Init /\ [][Next]_vars

\* Two request objects of one identity running concurrently
NextPair ==
    \/ \E i \in Inst, a \in PairArgs : New(i, a)
    \/ \E i \in Inst : UserRun(i)
    \/ \E i \in Inst : CancelRequest(i)
    \/ \E t \in timers : RetryTimer(t)
    \/ \E t \in timers : SleepTimer(t)
    \/ \E t \in timers : GuardTimer(t)
    \/ \E c \in inflight : TransportError(c)
    \/ \E c \in inflight, o \in Outcomes : TransportResponse(c, o)
    \/ \E M \in PairMaps(now) : SetLastRunHash(M, FALSE)
    \/ \E t \in {now + 1} \cup {x.due : x \in timers} : Tick(t)

SpecPair == Init /\ [][NextPair]_vars

\* One request object retrying up to its ceiling, its identity unregistered
NextRetry ==
    \/ \E a \in RetryArgs : New(1, a)
    \/ UserRun(1)
    \/ UserRunAsync(1)
    \/ CancelRequest(1)
    \/ \E t \in timers : RetryTimer(t)
    \/ \E t \in timers : GuardTimer(t)
    \/ \E c \in inflight : TransportError(c)
    \/ \E c \in inflight, o \in Outcomes : TransportResponse(c, o)
    \/ \E t \in {now + 1} \cup {x.due : x \in timers} : Tick(t)

SpecRetry == Init /\ [][NextRetry]_vars

\* The maps a caller registers before a request starts
LiveMaps(t) == {M \in HashMaps(t) : DOMAIN M = {"X"}}

\* the registry is set up before request i is started, and left alone after
SetUpLastRunHash(i, M) ==
    /\ ~log[i].started
    /\ SetLastRunHash(M, FALSE)

\* time passes until the next pending timer is due
Advance(t) ==
    /\ t > now
    /\ \E x \in timers : x.due = t
    /\ \A x \in timers : x.due > now => x.due >= t
    /\ now' = t
    /\ lastOp' = Op("tick", 0)
    /\ UNCHANGED <<ticks, lastRunHash, reqs, timers, inflight, log>>

\* One request object from construction to its end, the clock unbounded
NextLive ==
    \/ \E a \in Args : New(1, a)
    \/ \E M \in LiveMaps(now) : SetUpLastRunHash(1, M)
    \/ UserRun(1)
    \/ UserRunAsync(1)
    \/ CancelRequest(1)
    \/ \E t \in timers : RetryTimer(t)
    \/ \E t \in timers : SleepTimer(t)
    \/ \E t \in timers : GuardTimer(t)
    \/ \E c \in inflight : TransportError(c)
    \/ \E c \in inflight, o \in Outcomes : TransportResponse(c, o)
    \/ \E t \in {x.due : x \in timers} : Advance(t)

\* Fair scheduling: time passes, and a timer that is due fires.  The
\* transport is not required to call back: the guard cuts a silent call off.
Fairness ==
    /\ WF_vars(\E t \in {x.due : x \in timers} : Advance(t))
    /\ WF_vars(\E t \in timers : RetryTimer(t))
    /\ WF_vars(\E t \in timers : SleepTimer(t))
    /\ WF_vars(\E t \in timers : GuardTimer(t))

SpecLive == Init /\ [][NextLive]_vars /\ Fairness

\* The registry operations alone, on every map over the identities
NextRegistry ==
    \/ \E M \in AllMaps(now) : SetLastRunHash(M, TRUE)
    \/ \E M \in AllMaps(now) : AddToLastRunHash(M, TRUE)
    \/ \E M \in AllMaps(now) : RemoveFromLastRunHash(M, TRUE)
    \/ Tick(now + 1)

SpecRegistry == Init /\ [][NextRegistry]_vars

---------------------------------------------------------------------------
(* Properties *)

InFlightOf(i) == {c \in inflight : c.inst = i}
TimersOf(i) == {t \in timers : t.inst = i}
MarkedToCancel(i) == reqs[i].markedToCancel
IsRequestComplete(i) == reqs[i].isRequestComplete

\* The entry of request i's identity in the registry it uses is registered
\* with a positive requiredInterval and no lastReqTime
FreshEntry(i) ==
    LET h == GetLastRunHash(St, i)
        n == reqs[i].name
    IN  /\ n \in DOMAIN h
        /\ h[n].lastReqTime = NoTime
        /\ h[n].requiredInterval > 0

\* C1: two onFinish calls of requests of one identity registered (in the
\* shared registry) with interval I are at least I milliseconds apart.  Both
\* requests found the identity registered at every throttle check, and the
\* registry entry still carries the stamp of the earlier completion.
C1_CompletionsSpaced ==
    [][\A i \in Inst, j \in Inst :
        ( /\ i # j
          /\ log'[i].callbacks = log[i].callbacks + 1
          /\ log[j].finishedAt # NoTime
          /\ ~log[i].unregistered /\ ~log[j].unregistered
          /\ reqs[i].name = reqs[j].name
          /\ ~reqs[i].hasOwnHash /\ ~reqs[j].hasOwnHash
          /\ reqs[i].name \in DOMAIN lastRunHash
          /\ lastRunHash[reqs[i].name].lastReqTime = log[j].finishedAt )
        => now' - log[j].finishedAt
              >= lastRunHash[reqs[i].name].requiredInterval]_vars

\* C2 (as claimed): the first run() of a request whose identity is registered
\* with a positive requiredInterval and no lastReqTime dispatches the attempt
\* at once, with no interval wait.
C2_FirstRunNotThrottled ==
    [][\A i \in Inst :
        (lastOp' = Op("run", i) /\ ~MarkedToCancel(i) /\ FreshEntry(i))
        => /\ log'[i].dispatched = log[i].dispatched + 1
           /\ \A t \in timers' : ~(t.inst = i /\ t.kind = "sleep")]_vars

\* C2 (amended): that first run() sets lastReqTime to the current time, finds
\* the interval wait necessary, dispatches nothing and schedules a wait of
\* the full requiredInterval.
C2_FirstRunWaitsFullInterval ==
    [][\A i \in Inst :
        (lastOp' = Op("run", i) /\ ~MarkedToCancel(i) /\ FreshEntry(i))
        => LET n == reqs[i].name
               e == GetLastRunHash(St, i)'[n]
           IN  /\ log'[i].dispatched = log[i].dispatched
               /\ InFlightOf(i)' = {}
               /\ e.lastReqTime = now
               /\ [inst |-> i, kind |-> "sleep", att |-> 0,
                    due |-> now + e.requiredInterval] \in timers']_vars

\* A request with a private registry (registered without lastReqTime) has made
\* its first run(): the stamp is the current time and the wait is pending
C2_Witness ==
    \E i \in Inst :
        /\ lastOp = Op("run", i)
        /\ reqs[i].hasOwnHash
        /\ reqs[i].name \in DOMAIN reqs[i].ownHash
        /\ reqs[i].ownHash[reqs[i].name].lastReqTime = now
        /\ \E t \in timers : t.inst = i /\ t.kind = "sleep" /\ t.due > now
        /\ log[i].dispatched = 0

\* C3: a request constructed with maxRetries = 0 never signals exhaustion,
\* whatever the number of fail() calls.
C3_ZeroIsUnlimited ==
    \A i \in Inst :
        (reqs[i].constructed /\ reqs[i].opts.maxRetries = Given(0))
        => log[i].exhausted = 0

\* the ceiling N of request i as the caller states it
CeilingOf(i) ==
    IF reqs[i].opts.maxRetries.given THEN reqs[i].opts.maxRetries.value ELSE 10

\* C4: with ceiling N > 0 (10 when maxRetries is omitted) numTriesSoFar is the
\* number of failures so far, exhaustion is signalled exactly when the N-th
\* failure has happened, at most N attempts are dispatched, and once
\* exhausted exactly N attempts were dispatched, nothing is scheduled or in
\* flight and onFinish was never called.
C4_ExactlyNAttempts ==
    \A i \in Inst :
        (reqs[i].constructed /\ CeilingOf(i) > 0)
        => /\ reqs[i].numTriesSoFar = log[i].failures
           /\ log[i].failures <= CeilingOf(i)
           /\ log[i].dispatched <= CeilingOf(i)
           /\ log[i].exhausted = (IF log[i].failures >= CeilingOf(i) THEN 1 ELSE 0)
           /\ log[i].exhausted = 1
                => /\ log[i].dispatched = CeilingOf(i)
                   /\ log[i].callbacks = 0
                   /\ ~IsRequestComplete(i)
                   /\ TimersOf(i) = {}
                   /\ InFlightOf(i) = {}

\* A request constructed without maxRetries is exhausted after 10 attempts
C4_Witness ==
    \E i \in Inst :
        /\ reqs[i].constructed /\ ~reqs[i].opts.maxRetries.given
        /\ log[i].exhausted = 1
        /\ log[i].dispatched = 10

\* C5: once a request is canceled with no transport call in flight, no
\* transport call is invoked for it and its completion callback is not
\* invoked (so it stays without a call in flight, step after step).
C5_CanceledIdleNeverDispatches ==
    [][\A i \in Inst :
        (MarkedToCancel(i) /\ InFlightOf(i) = {})
        => /\ log'[i].dispatched = log[i].dispatched
           /\ log'[i].callbacks = log[i].callbacks
           /\ InFlightOf(i)' = {}]_vars

\* The retry timer of a canceled request has fired and run() bailed out
C5_Witness ==
    \E i \in Inst :
        /\ lastOp = Op("retryTimer", i)
        /\ MarkedToCancel(i)
        /\ log[i].dispatched = log[i].failures
        /\ InFlightOf(i) = {}

\* C6: after cancelRequest() has marked a request canceled the completion
\* callback is not invoked, and no request is both canceled and completed.
C6_CanceledNeverCompletes ==
    [][\A i \in Inst :
        /\ MarkedToCancel(i) => log'[i].callbacks = log[i].callbacks
        /\ ~(MarkedToCancel(i)' /\ IsRequestComplete(i)')]_vars

\* A request canceled while its transport call was in flight: the attempt
\* has neither failed nor finished
C6_Witness ==
    \E i \in Inst :
        /\ MarkedToCancel(i)
        /\ log[i].dispatched = log[i].failures + 1
        /\ log[i].callbacks = 0
        /\ InFlightOf(i) = {}

\* C7: the completion callback is invoked at most once, exactly once when
\* the request is complete, and no attempt is dispatched after completion.
C7_CompletesOnce ==
    [][\A i \in Inst :
        /\ log'[i].callbacks <= 1
        /\ IsRequestComplete(i)' <=> log'[i].callbacks = 1
        /\ IsRequestComplete(i) => log'[i].dispatched = log[i].dispatched]_vars

\* A request that completed on a retry, and time has passed since
C7_Witness ==
    \E i \in Inst :
        /\ IsRequestComplete(i)
        /\ log[i].callbacks = 1
        /\ log[i].failures > 0
        /\ now > log[i].finishedAt

\* C8: whenever an attempt is dispatched, the entry of its identity in the
\* registry it uses (if any), as it stands at the dispatch, has
\* now - lastReqTime >= requiredInterval.
C8_NoDispatchWithinInterval ==
    [][\A i \in Inst :
        log'[i].dispatched > log[i].dispatched
        => LET h == GetLastRunHash(St, i)'
               n == reqs[i].name
           IN  n \in DOMAIN h
               => ~(now' - h[n].lastReqTime < h[n].requiredInterval)]_vars

\* A request woke from its wait, found the stamp refreshed by the completion
\* of another request of its identity, waited again and is now dispatched
C8_Witness ==
    \E i \in Inst, j \in Inst :
        /\ i # j
        /\ lastOp = Op("sleepTimer", i)
        /\ InFlightOf(i) # {}
        /\ IsRequestComplete(j)
        /\ ~log[i].unregistered /\ ~log[j].unregistered
        /\ log[i].started /\ log[j].finishedAt > 1
        /\ "X" \in DOMAIN lastRunHash
        /\ lastRunHash["X"].lastReqTime = log[j].finishedAt
        /\ now >= log[j].finishedAt + lastRunHash["X"].requiredInterval

\* C9: cancelRequest() on a completed or already canceled request changes
\* nothing: flags, data, status, registry, transport calls, timers.
C9_CancelAfterEndIsNoOp ==
    [][\A i \in Inst :
        ( /\ lastOp' = Op("cancelRequest", i)
          /\ (IsRequestComplete(i) \/ MarkedToCancel(i)) )
        => UNCHANGED <<now, lastRunHash, reqs, timers, inflight, log>>]_vars

\* cancelRequest() has just been called on a completed request
C9_Witness ==
    \E i \in Inst :
        /\ lastOp = Op("cancelRequest", i)
        /\ IsRequestComplete(i)
        /\ ~MarkedToCancel(i)
        /\ reqs[i].data = "body"

\* C10: after addToLastRunHash(M) then removeFromLastRunHash(M) on registry
\* R, every identity of M is absent, every other identity has its entry of R
\* (or is absent as in R), and the result is R exactly when M and R share no
\* identity.
C10_AddRemoveRoundTrip ==
    (lastOp.op = "removeFromLastRunHash" /\ lastOp.roundTrip)
    => LET R == lastOp.pre
           M == lastOp.arg
       IN  /\ \A n \in DOMAIN M : n \notin DOMAIN lastRunHash
           /\ \A n \in Names \ DOMAIN M :
                /\ n \in DOMAIN lastRunHash <=> n \in DOMAIN R
                /\ n \in DOMAIN R => lastRunHash[n] = R[n]
           /\ (lastRunHash = R) <=> (DOMAIN M \cap DOMAIN R = {})

\* A round trip whose map overwrote an entry of R: that entry is gone, the
\* other entry of R is kept
C10_Witness ==
    /\ lastOp.op = "removeFromLastRunHash" /\ lastOp.roundTrip
    /\ DOMAIN lastOp.arg \cap DOMAIN lastOp.pre # {}
    /\ lastRunHash # lastOp.pre
    /\ DOMAIN lastRunHash # {}

\* C11: the callback given to the constructor and the promise of runAsync
\* are never both satisfied.  A request started with runAsync resolves its
\* promise at most once, exactly once when complete, with the data passed
\* to onFinish, and never invokes the constructor callback; a request
\* started with run never resolves a promise and invokes the constructor
\* callback exactly once when complete.
C11_OneCompletionSink ==
    \A i \in Inst :
        LET argsCallbacks == log[i].callbacks - log[i].resolved IN
        /\ ~(argsCallbacks > 0 /\ log[i].resolved > 0)
        /\ log[i].async
             => /\ argsCallbacks = 0
                /\ log[i].resolved = (IF IsRequestComplete(i) THEN 1 ELSE 0)
                /\ log[i].resolved = 1 => log[i].resolvedWith = reqs[i].data
        /\ ~log[i].async
             => /\ log[i].resolved = 0
                /\ argsCallbacks = (IF IsRequestComplete(i) THEN 1 ELSE 0)

\* A request started with runAsync completed on a retry: its promise is
\* resolved with the response body
C11_Witness ==
    \E i \in Inst :
        /\ log[i].async
        /\ IsRequestComplete(i)
        /\ log[i].failures > 0
        /\ log[i].resolved = 1
        /\ log[i].resolvedWith = "body"
        /\ log[i].callbacks = 1

\* C12: a request object has at most one transport call in flight, and a
\* call in flight is that of the latest attempt dispatched: no attempt is
\* dispatched while an earlier one is in flight and not aborted.
C12_OneCallInFlight ==
    \A i \in Inst :
        /\ Cardinality(InFlightOf(i)) <= 1
        /\ \A c \in InFlightOf(i) : c.att = log[i].dispatched

\* The guard cut the first attempt off and the retry timer has dispatched
\* the second attempt, the only call in flight
C12_Witness ==
    \E i \in Inst :
        /\ lastOp = Op("retryTimer", i)
        /\ now >= 1 + RequestTimeoutMs + GuardMarginMs + GuardBackoffMs
        /\ log[i].failures = 1
        /\ InFlightOf(i) = {[inst |-> i, att |-> 2]}

\* What the guard of request i does when it fires, the fired timer being t:
\* the call was still in flight and is aborted, numTriesSoFar grows by one,
\* and either the ceiling is reached, exhaustion is signalled and nothing is
\* scheduled, or exactly one retry timer is set for 0.1 s from now and
\* nothing is dispatched in this step
GuardFailsAttempt(i) ==
    /\ InFlightOf(i) = {[inst |-> i, att |-> log[i].dispatched]}
    /\ InFlightOf(i)' = {}
    /\ reqs'[i].numTriesSoFar = reqs[i].numTriesSoFar + 1
    /\ log'[i].dispatched = log[i].dispatched
    /\ IF reqs'[i].numTriesSoFar >= reqs[i].maxRetries
       THEN /\ log'[i].exhausted = log[i].exhausted + 1
            /\ TimersOf(i)' = {}
       ELSE /\ log'[i].exhausted = log[i].exhausted
            /\ TimersOf(i)' = {[inst |-> i, kind |-> "retry", att |-> 0,
                                 due |-> now + 100]}

\* Every dispatch sets one guard, for 60000 + 2000 ms from the dispatch
GuardSetAtDispatch(i) ==
    log'[i].dispatched > log[i].dispatched
    => {t \in TimersOf(i)' : t.kind = "guard"} =
          {[inst |-> i, kind |-> "guard", att |-> log'[i].dispatched,
            due |-> now' + 60000 + 2000]}

\* C13 (as claimed): the guard of a call that neither responded nor errored
\* fires exactly 60000 + 2000 ms after the dispatch, aborts the call, counts
\* one failure and signals exhaustion at the ceiling or else schedules
\* exactly one retry after 0.1 s.
C13_GuardFiresExactly ==
    [][\A i \in Inst :
        /\ GuardSetAtDispatch(i)
        /\ lastOp' = Op("guardTimer", i)
             => \E t \in timers \ timers' :
                    /\ t.inst = i /\ t.kind = "guard"
                    /\ now = t.due
                    /\ GuardFailsAttempt(i)]_vars

\* C13 (amended): the guard is set for exactly 60000 + 2000 ms after the
\* dispatch and fires no earlier than that, possibly later; when it fires
\* it aborts the call, counts one failure and signals exhaustion at the
\* ceiling or else schedules exactly one retry for 0.1 s after the firing.
C13_GuardFiresNoEarlier ==
    [][\A i \in Inst :
        /\ GuardSetAtDispatch(i)
        /\ lastOp' = Op("guardTimer", i)
             => \E t \in timers \ timers' :
                    /\ t.inst = i /\ t.kind = "guard"
                    /\ now >= t.due
                    /\ GuardFailsAttempt(i)]_vars

\* The guard of the first attempt has fired later than it was set for, below
\* the ceiling: the call is gone and one retry is pending
C13_Witness ==
    \E i \in Inst :
        /\ lastOp = Op("guardTimer", i)
        /\ now > 1 + RequestTimeoutMs + GuardMarginMs
        /\ reqs[i].numTriesSoFar = 1
        /\ InFlightOf(i) = {}
        /\ TimersOf(i) = {[inst |-> i, kind |-> "retry", att |-> 0,
                           due |-> now + GuardBackoffMs]}

GuardsOf(i) == {t \in TimersOf(i) : t.kind = "guard"}

\* C14: a request object has at most one guard timer pending, and a pending
\* guard is that of the latest attempt, whose transport call is in flight:
\* no guard is pending once the call has called back, the request has
\* completed, been canceled or exhausted its retries.
C14_GuardOnlyWhileInFlight ==
    \A i \in Inst :
        /\ Cardinality(GuardsOf(i)) <= 1
        /\ \A t \in GuardsOf(i) :
              /\ t.att = log[i].dispatched
              /\ [inst |-> i, att |-> t.att] \in inflight
        /\ (IsRequestComplete(i) \/ MarkedToCancel(i) \/ log[i].exhausted > 0)
             => GuardsOf(i) = {}
        /\ InFlightOf(i) = {} => GuardsOf(i) = {}

\* The transport called back for the first attempt, which cleared its guard
\* and failed; the second attempt is in flight under its own guard
C14_Witness ==
    \E i \in Inst :
        /\ log[i].failures = 1
        /\ now < RequestTimeoutMs
        /\ InFlightOf(i) = {[inst |-> i, att |-> 2]}
        /\ \E t \in timers : t.inst = i /\ t.kind = "guard" /\ t.att = 2
        /\ Cardinality(TimersOf(i)) = 1

\* the outcomes produced so far for the attempts of request i
OutcomesOf(i) == log[i].failures + log[i].callbacks

\* the last step produced an outcome for request i: the guard fired, the
\* transport reported an error, or postProcess finished or failed
OutcomeStep(i) ==
    /\ lastOp'.inst = i
    /\ lastOp'.op \in {"guardTimer", "transportError", "onFinish",
                       "postProcessFail"}

NotDecreased(h1, h2) ==
    \A n \in DOMAIN h1 :
        /\ n \in DOMAIN h2
        /\ h2[n].requiredInterval = h1[n].requiredInterval
        /\ h2[n].lastReqTime >= h1[n].lastReqTime

C17_CancelClearsTimers ==
    \A i \in Inst : MarkedToCancel(i) => TimersOf(i) = {}

\* C19: a step of a request that carries a private registry (its run, its
\* timers, its transport callbacks, its cancelRequest) leaves the shared
\* registry unchanged; its throttle decisions follow the private registry
\* (an attempt is dispatched only when the private entry, initialised, is at
\* least requiredInterval old; a wait ends when the private entry allows);
\* its onFinish stamps the private entry; and setLastRunHash,
\* addToLastRunHash and removeFromLastRunHash leave the private registry
\* unchanged.
C19_PrivateRegistryIsolated ==
    [][\A i \in Inst :
        reqs[i].hasOwnHash
        => LET n == reqs[i].name
               own == reqs'[i].ownHash
           IN  /\ lastOp'.inst = i => lastRunHash' = lastRunHash
               /\ lastOp'.op \in {"setLastRunHash", "addToLastRunHash",
                                  "removeFromLastRunHash"}
                    => reqs'[i].ownHash = reqs[i].ownHash
               /\ (log'[i].dispatched > log[i].dispatched /\ n \in DOMAIN own)
                    => /\ own[n].lastReqTime # NoTime
                       /\ now - own[n].lastReqTime >= own[n].requiredInterval
               /\ \A t \in TimersOf(i)' \ TimersOf(i) :
                    t.kind = "sleep"
                    => /\ n \in DOMAIN own
                       /\ t.due = own[n].lastReqTime + own[n].requiredInterval
               /\ (lastOp' = Op("onFinish", i) /\ n \in DOMAIN own)
                    => own[n].lastReqTime = now]_vars

\* A request with a private registry has completed and stamped its private
\* entry, while the shared registry holds the same identity with its own,
\* different lastReqTime
C19_Witness ==
    \E i \in Inst :
        /\ lastOp = Op("onFinish", i)
        /\ reqs[i].hasOwnHash
        /\ reqs[i].name \in DOMAIN reqs[i].ownHash
        /\ reqs[i].ownHash[reqs[i].name].lastReqTime = now
        /\ reqs[i].name \in DOMAIN lastRunHash
        /\ lastRunHash[reqs[i].name].lastReqTime \notin {NoTime, now}

\* C18: under fair scheduling a started request with a ceiling above zero
\* eventually has onFinish called or its retries exhausted, unless it is
\* canceled; the registry is not changed after the request has started and
\* no other request completes.
C18_EventuallyTerminal ==
    \A i \in Inst :
        (log[i].started /\ ~MarkedToCancel(i))
        ~> (IsRequestComplete(i) \/ log[i].exhausted > 0 \/ MarkedToCancel(i))

\* A request of a registered identity waited out its interval, was cut off
\* by the guard twice and is exhausted at its ceiling of 2
C18_Witness ==
    \E i \in Inst :
        /\ log[i].started /\ ~log[i].unregistered
        /\ reqs[i].opts.maxRetries = Given(2)
        /\ log[i].exhausted = 1
        /\ now > 2 * (RequestTimeoutMs + GuardMarginMs)
        /\ TimersOf(i) = {} /\ InFlightOf(i) = {}

====
